---- MODULE Spec2Model ----
(***************************************************************************)
(* The Todo list component of src/Todo/src/app/app.ts (class App).         *)
(*                                                                         *)
(* The component is single-threaded and event-driven.  Every async method  *)
(* runs up to its `await fetch(...)`, is suspended there, and is resumed   *)
(* when the response arrives; the code between two awaits runs atomically. *)
(* A suspended method is an entry of `calls`: it holds what the method     *)
(* captured in its locals and in the request it sent.  A method is resumed *)
(* with a response chosen among the responses the remote resource and the  *)
(* network can produce.                                                    *)
(***************************************************************************)
EXTENDS Integers, Sequences, FiniteSets, TLC

\* ---------------------------------------------------------------- bounds

\* User actions (method calls and input edits) of one session.
MaxSteps == 3
\* POST requests the remote resource processes (it assigns one fresh id to each).
MaxCreates == 1

\* Items of a list whose filtered and sorted view is computed.
MaxView == 3

\* ---------------------------------------------------------------- values

Priorities == {"low", "medium", "high"}

Filters == {"all", "completed", "pending"}

\* `null` of `signal<number | null>(null)`.
Null == -1

WhiteSpace == {" ", "\t"}

\* What the user can type in the new-todo field, and in the edit field.
TextInputs == {<< " " >>, << " ", "a", " " >>}
EditInputs == {<< "b" >>}

\* The userId addTodo posts.
UserId == 1

\* What the remote collection holds when the session starts.
ServerData ==
    << [id |-> 1, title |-> << "a" >>, completed |-> FALSE, userId |-> UserId] >>

\* Other collections the remote resource may hold: one whose ids start at 0,
\* and one of two items.
ServerDataZero ==
    << [id |-> 0, title |-> << "a" >>, completed |-> FALSE, userId |-> UserId],
       [id |-> 1, title |-> << "a" >>, completed |-> TRUE, userId |-> UserId] >>

ServerDataTwo ==
    << [id |-> 1, title |-> << "a" >>, completed |-> FALSE, userId |-> UserId],
       [id |-> 2, title |-> << "a" >>, completed |-> TRUE, userId |-> UserId] >>

LoadError == "Failed to load todos"
AddError == "Failed to add todo"

\* ---------------------------------------------------------------- helpers

\* String.prototype.trim: drops leading and trailing white space.
RECURSIVE TrimStart(_)
TrimStart(s) ==
    IF s # << >> /\ Head(s) \in WhiteSpace THEN TrimStart(Tail(s)) ELSE s

RECURSIVE TrimEnd(_)
TrimEnd(s) ==
    IF s # << >> /\ s[Len(s)] \in WhiteSpace
    THEN TrimEnd(SubSeq(s, 1, Len(s) - 1))
    ELSE s

\* Variant: the input taken as typed, not trimmed.
TrimNothing(s) == s

Trim(s) == TrimEnd(TrimStart(s))

\* `!x` of a number | null, and of a string.
Falsy(id) == id = Null \/ id = 0
EmptyText(s) == s = << >>

\* `{ ...obj, priority: p }`: obj with the field priority added or replaced.
WithPriority(obj, p) ==
    [f \in DOMAIN obj \cup {"priority"} |-> IF f = "priority" THEN p ELSE obj[f]]

\* `{ ...t, completed: !t.completed }`.
FlipCompleted(t) == [t EXCEPT !.completed = ~t.completed]

\* `{ ...todo, title: text, priority: p }`.
WithTitlePriority(todo, text, p) == [todo EXCEPT !.title = text, !.priority = p]

\* `response.ok`.
ResponseOk(resp) == resp.status = "ok"

\* ---------------------------------------------------------------- state

VARIABLES
    todos,            \* signal<Todo[]>: the in-memory list
    loading,          \* signal(false)
    error,            \* signal(''): the user-visible error string
    newTodoText,      \* the title input of the create form
    newTodoPriority,  \* the priority input of the create form
    editingId,        \* id of the item under edit, or Null
    editText,         \* staged title of the item under edit
    editPriority,     \* staged priority of the item under edit
    started,          \* ngOnInit has run
    calls,            \* the async methods suspended at their `await fetch`
    nextId,           \* the id the remote resource assigns to the next POST
    steps,            \* user actions so far
    server,           \* the items the remote collection held when the session started
    currentFilter,    \* signal<Filter>('all')
    sortByPriority,   \* signal(false)
    view,             \* what filteredAndSortedTodos returned last
    last,             \* history: the step taken last and the state it started from
    tog               \* history: the run of successful toggles of one id

app == <<todos, loading, error, newTodoText, newTodoPriority,
         editingId, editText, editPriority>>

vars == <<todos, loading, error, newTodoText, newTodoPriority,
          editingId, editText, editPriority, started, calls, nextId, steps,
          server, currentFilter, sortByPriority, view, last, tog>>

\* What the methods that read and write the list leave alone.
still == <<server, currentFilter, sortByPriority, view>>

\* A suspended call: the method, and what it captured before its fetch.
\*   load:   nothing
\*   add:    title, priority = the posted newTodo; assigned = the id the
\*           remote resource gave it once it processed the POST (else Null)
\*   toggle: id, completed = todo.id, todo.completed of the argument
\*   delete: id
\*   edit:   id = the local `id`; title, priority = the PATCH body
Call(op, id, title, priority, completed) ==
    [op |-> op, id |-> id, title |-> title, priority |-> priority,
     completed |-> completed, assigned |-> Null]

NoCall == Call("none", Null, << >>, "medium", FALSE)

\* A response: status is "throw" when fetch rejects (network failure), else
\* "ok" (2xx) or "notok"; body says what response.json() finds: "array",
\* "object", or "notjson" (json() throws); items holds the array's elements,
\* or the one object.
Resp(status, body, items) == [status |-> status, body |-> body, items |-> items]

NoResp == Resp("none", "none", << >>)

\* The step taken last: the method called (op), or the method resumed
\* (op ending in ".resume") with the call resumed and its response; was is
\* the list the step started from.
Step(op, call, resp) == [op |-> op, call |-> call, resp |-> resp, was |-> todos]

NoTog == [id |-> Null, orig |-> << >>, sent |-> << >>]

\* filteredAndSortedTodos has not been called, or a setting changed since.
NoView == [fresh |-> FALSE, out |-> << >>]

\* The component as constructed, in front of a remote collection of `data`.
InitWith(data) ==
    /\ todos = << >>
    /\ loading = FALSE
    /\ error = ""
    /\ newTodoText = << >>
    /\ newTodoPriority = "medium"
    /\ editingId = Null
    /\ editText = << >>
    /\ editPriority = "medium"
    /\ started = FALSE
    /\ calls = << >>
    /\ server = data
    /\ nextId = data[Len(data)].id + 1
    /\ steps = 0
    /\ currentFilter = "all"
    /\ sortByPriority = FALSE
    /\ view = NoView
    /\ last = Step("new", NoCall, NoResp)
    /\ tog = NoTog

Init == InitWith(ServerData)

\* The sequence xs without its i-th element.
Without(xs, i) == SubSeq(xs, 1, i - 1) \o SubSeq(xs, i + 1, Len(xs))

\* A user action is possible once the component is initialised.
User == started /\ steps < MaxSteps

\* ---------------------------------------------------------------- remote resource

\* The item of id `id` as a GET returns it: {id, title, completed, userId};
\* an item created by a POST has the title and completed flag addTodo posts.
ServerItem(id) ==
    IF \E i \in 1..Len(server) : server[i].id = id
    THEN server[CHOOSE i \in 1..Len(server) : server[i].id = id]
    ELSE [id |-> id, title |-> << "a" >>, completed |-> FALSE, userId |-> UserId]

\* The items of the ids in S, in id order.
RECURSIVE ItemsOf(_)
ItemsOf(S) ==
    IF S = {} THEN << >>
    ELSE LET m == CHOOSE x \in S : \A y \in S : x <= y
         IN  << ServerItem(m) >> \o ItemsOf(S \ {m})

\* The arrays a GET can return: any of the items the remote resource has
\* assigned an id to (it may have deleted the others), in id order.
ServerArrays == {ItemsOf(S) : S \in SUBSET (server[1].id..(nextId - 1))}

\* The responses a GET can resolve with.  A non-2xx response may carry any
\* body; the only array it carries here is the empty one.
LoadResponses ==
    {Resp("throw", "none", << >>)}
    \cup {Resp(st, b, << >>) : st \in {"ok", "notok"}, b \in {"object", "notjson"}}
    \cup {Resp("notok", "array", << >>)}
    \cup {Resp("ok", "array", xs) : xs \in ServerArrays}

\* The item a POST answers with: the posted fields and the assigned id.
CreatedTodo(c) ==
    [id |-> c.assigned, title |-> c.title, completed |-> FALSE,
     priority |-> c.priority, userId |-> UserId]

\* The responses the POST of call c can resolve with: 2xx once the remote
\* resource has processed it, non-2xx if it refuses it.
AddResponses(c) ==
    {Resp("throw", "none", << >>)}
    \cup (IF c.assigned = Null
          THEN {Resp("notok", "object", << >>)}
          ELSE {Resp("ok", "object", << CreatedTodo(c) >>),
                Resp("ok", "notjson", << >>)})

\* The responses a PATCH or DELETE can resolve with; their bodies are not read.
PlainResponses ==
    {Resp("throw", "none", << >>), Resp("notok", "object", << >>),
     Resp("ok", "object", << >>)}

\* The remote resource processes the POST of calls[i] and assigns its id.
ServerCreate(i) ==
    /\ calls[i].op = "add"
    /\ calls[i].assigned = Null
    /\ nextId <= server[Len(server)].id + MaxCreates
    /\ calls' = [calls EXCEPT ![i].assigned = nextId]
    /\ nextId' = nextId + 1
    /\ last' = Step("server", calls[i], NoResp)
    /\ UNCHANGED still
    /\ UNCHANGED <<app, started, steps, tog>>

\* ---------------------------------------------------------------- loadTodos

\* apiTodos.map(todo => ({...todo, priority: <random>})); prios[i] is the
\* priority drawn for the i-th item.
TodosWithPriority(apiTodos, prios) ==
    [i \in 1..Len(apiTodos) |-> WithPriority(apiTodos[i], prios[i])]

\* Variant: loadTodos appending the loaded items instead of replacing the list.
LoadSetAppends(current, todosWithPriority) == current \o todosWithPriority

\* this.todos.set(todosWithPriority)
LoadSet(current, todosWithPriority) == todosWithPriority

\* loadTodos up to its await.
LoadCall(op) ==
    /\ loading' = TRUE
    /\ error' = ""
    /\ calls' = Append(calls, Call("load", Null, << >>, "medium", FALSE))
    /\ last' = Step(op, NoCall, NoResp)
    /\ UNCHANGED still
    /\ UNCHANGED <<todos, newTodoText, newTodoPriority, editingId, editText,
                   editPriority, nextId, tog>>

NgOnInit ==
    /\ ~started
    /\ started' = TRUE
    /\ UNCHANGED steps
    /\ LoadCall("ngOnInit")

LoadTodos ==
    /\ User
    /\ steps' = steps + 1
    /\ UNCHANGED started
    /\ LoadCall("loadTodos")

\* Variant: loadTodos clearing the loading flag at the end of the try block
\* instead of in a finally block.
LoadResumeNoFinally(i, resp, prios) ==
    /\ calls[i].op = "load"
    /\ calls' = Without(calls, i)
    /\ IF resp.status # "throw" /\ resp.body = "array"
       THEN /\ todos' = LoadSet(todos, TodosWithPriority(resp.items, prios))
            /\ tog' = NoTog
            /\ loading' = FALSE
            /\ UNCHANGED error
       ELSE /\ error' = LoadError
            /\ UNCHANGED <<todos, tog, loading>>
    /\ last' = Step("loadTodos.resume", calls[i], resp)
    /\ UNCHANGED still
    /\ UNCHANGED <<newTodoText, newTodoPriority, editingId, editText,
                   editPriority, started, nextId, steps>>

\* loadTodos from its await on: fetch rejects, or response.json() throws, or
\* the parsed value has no map method, and the catch block runs; else the
\* list is replaced.  response.ok is not read.
LoadResume(i, resp, prios) ==
    /\ calls[i].op = "load"
    /\ calls' = Without(calls, i)
    /\ IF resp.status # "throw" /\ resp.body = "array"
       THEN /\ todos' = LoadSet(todos, TodosWithPriority(resp.items, prios))
            /\ tog' = NoTog
            /\ UNCHANGED error
       ELSE /\ error' = LoadError
            /\ UNCHANGED <<todos, tog>>
    /\ loading' = FALSE
    /\ last' = Step("loadTodos.resume", calls[i], resp)
    /\ UNCHANGED still
    /\ UNCHANGED <<newTodoText, newTodoPriority, editingId, editText,
                   editPriority, started, nextId, steps>>

\* ---------------------------------------------------------------- addTodo

\* Variant: addTodo setting the list to the created item alone.
AppendUpdateReplaces(current, todoWithPriority) == << todoWithPriority >>

\* this.todos.update(current => [...current, todoWithPriority])
AppendUpdate(current, todoWithPriority) == Append(current, todoWithPriority)

AddTodo ==
    /\ User
    /\ steps' = steps + 1
    /\ LET text == Trim(newTodoText) IN
       IF EmptyText(text)
       THEN UNCHANGED <<loading, calls>>
       ELSE /\ loading' = TRUE
            /\ calls' = Append(calls, Call("add", Null, text, newTodoPriority, FALSE))
    /\ last' = Step("addTodo", NoCall, NoResp)
    /\ UNCHANGED still
    /\ UNCHANGED <<todos, error, newTodoText, newTodoPriority, editingId,
                   editText, editPriority, started, nextId, tog>>

AddResume(i, resp) ==
    /\ calls[i].op = "add"
    /\ calls' = Without(calls, i)
    /\ IF resp.status = "throw" \/ (ResponseOk(resp) /\ resp.body = "notjson")
       THEN /\ error' = AddError
            /\ UNCHANGED <<todos, newTodoText, newTodoPriority, tog>>
       ELSE IF ResponseOk(resp)
       THEN /\ todos' = AppendUpdate(todos,
                            WithPriority(resp.items[1], newTodoPriority))
            /\ newTodoText' = << >>
            /\ newTodoPriority' = "medium"
            /\ tog' = NoTog
            /\ UNCHANGED error
       ELSE UNCHANGED <<todos, error, newTodoText, newTodoPriority, tog>>
    /\ loading' = FALSE
    /\ last' = Step("addTodo.resume", calls[i], resp)
    /\ UNCHANGED still
    /\ UNCHANGED <<editingId, editText, editPriority, started, nextId, steps>>

\* ---------------------------------------------------------------- toggleTodo

\* Variant: toggleTodo storing the flag it sent instead of flipping the local one.
ToggleUpdateSent(current, todo) ==
    [i \in 1..Len(current) |->
        IF current[i].id = todo.id
        THEN [current[i] EXCEPT !.completed = ~todo.completed]
        ELSE current[i]]

\* Variant: toggleTodo putting the item back when the list does not hold it.
ToggleUpdateUpsert(current, todo) ==
    IF \E i \in 1..Len(current) : current[i].id = todo.id
    THEN [i \in 1..Len(current) |->
             IF current[i].id = todo.id THEN FlipCompleted(current[i]) ELSE current[i]]
    ELSE Append(current, [id |-> todo.id, title |-> todo.title,
                          completed |-> ~todo.completed,
                          priority |-> todo.priority, userId |-> UserId])

\* current.map(t => t.id === todo.id ? {...t, completed: !t.completed} : t)
ToggleUpdate(current, todo) ==
    [i \in 1..Len(current) |->
        IF current[i].id = todo.id THEN FlipCompleted(current[i]) ELSE current[i]]

\* The run of toggles after a successful toggle of call c.
TogAfter(c) ==
    IF tog.id = c.id /\ Len(tog.sent) = 1
    THEN [tog EXCEPT !.sent = Append(@, ~c.completed)]
    ELSE [id |-> c.id, orig |-> todos, sent |-> << ~c.completed >>]

\* toggleTodo(todos[k]) up to its await; the PATCH body is
\* {completed: !todo.completed}.
ToggleTodo(k) ==
    /\ User
    /\ steps' = steps + 1
    /\ calls' = Append(calls, Call("toggle", todos[k].id, << >>, "medium",
                                   todos[k].completed))
    /\ last' = Step("toggleTodo", NoCall, NoResp)
    /\ UNCHANGED still
    /\ UNCHANGED <<app, started, nextId, tog>>

ToggleResume(i, resp) ==
    /\ calls[i].op = "toggle"
    /\ calls' = Without(calls, i)
    /\ IF resp.status # "throw" /\ ResponseOk(resp)
       THEN /\ todos' = ToggleUpdate(todos, calls[i])
            /\ tog' = TogAfter(calls[i])
       ELSE UNCHANGED <<todos, tog>>
    /\ last' = Step("toggleTodo.resume", calls[i], resp)
    /\ UNCHANGED still
    /\ UNCHANGED <<loading, error, newTodoText, newTodoPriority, editingId,
                   editText, editPriority, started, nextId, steps>>

\* ---------------------------------------------------------------- deleteTodo

\* Variant: deleteTodo removing the first item instead of the item of the id.
DeleteUpdateFirst(current, id) == IF current = << >> THEN current ELSE Tail(current)

\* current.filter(todo => todo.id !== id)
DeleteUpdate(current, id) ==
    LET keep(todo) == todo.id # id
    IN  SelectSeq(current, keep)

\* deleteTodo(todos[k].id) up to its await.
DeleteTodo(k) ==
    /\ User
    /\ steps' = steps + 1
    /\ calls' = Append(calls, Call("delete", todos[k].id, << >>, "medium", FALSE))
    /\ last' = Step("deleteTodo", NoCall, NoResp)
    /\ UNCHANGED still
    /\ UNCHANGED <<app, started, nextId, tog>>

\* Variant: deleteTodo updating the list without testing response.ok.
DeleteResumeUnchecked(i, resp) ==
    /\ calls[i].op = "delete"
    /\ calls' = Without(calls, i)
    /\ IF resp.status # "throw"
       THEN /\ todos' = DeleteUpdate(todos, calls[i].id)
            /\ tog' = NoTog
       ELSE UNCHANGED <<todos, tog>>
    /\ last' = Step("deleteTodo.resume", calls[i], resp)
    /\ UNCHANGED still
    /\ UNCHANGED <<loading, error, newTodoText, newTodoPriority, editingId,
                   editText, editPriority, started, nextId, steps>>

DeleteResume(i, resp) ==
    /\ calls[i].op = "delete"
    /\ calls' = Without(calls, i)
    /\ IF resp.status # "throw" /\ ResponseOk(resp)
       THEN /\ todos' = DeleteUpdate(todos, calls[i].id)
            /\ tog' = NoTog
       ELSE UNCHANGED <<todos, tog>>
    /\ last' = Step("deleteTodo.resume", calls[i], resp)
    /\ UNCHANGED still
    /\ UNCHANGED <<loading, error, newTodoText, newTodoPriority, editingId,
                   editText, editPriority, started, nextId, steps>>

\* ---------------------------------------------------------------- editing

StartEdit(k) ==
    /\ User
    /\ steps' = steps + 1
    /\ editingId' = todos[k].id
    /\ editText' = todos[k].title
    /\ editPriority' = todos[k].priority
    /\ last' = Step("startEdit", NoCall, NoResp)
    /\ UNCHANGED still
    /\ UNCHANGED <<todos, loading, error, newTodoText, newTodoPriority,
                   started, calls, nextId, tog>>

CancelEdit ==
    /\ User
    /\ steps' = steps + 1
    /\ editingId' = Null
    /\ editText' = << >>
    /\ last' = Step("cancelEdit", NoCall, NoResp)
    /\ UNCHANGED still
    /\ UNCHANGED <<todos, loading, error, newTodoText, newTodoPriority,
                   editPriority, started, calls, nextId, tog>>

\* current.map(todo => todo.id === id ? {...todo, title, priority} : todo)
EditUpdate(current, id, text, priority) ==
    [i \in 1..Len(current) |->
        IF current[i].id = id
        THEN WithTitlePriority(current[i], text, priority)
        ELSE current[i]]

\* saveEdit up to its await; the PATCH body is {title: editText, priority:
\* editPriority} as they are now.
SaveEdit ==
    /\ User
    /\ steps' = steps + 1
    /\ IF Falsy(editingId)
       THEN UNCHANGED calls
       ELSE calls' = Append(calls, Call("edit", editingId, editText,
                                        editPriority, FALSE))
    /\ last' = Step("saveEdit", NoCall, NoResp)
    /\ UNCHANGED still
    /\ UNCHANGED <<app, started, nextId, tog>>

\* saveEdit from its await on; on a 2xx response the item gets editText and
\* editPriority as they are when the response arrives, then cancelEdit runs.
SaveEditResume(i, resp) ==
    /\ calls[i].op = "edit"
    /\ calls' = Without(calls, i)
    /\ IF resp.status # "throw" /\ ResponseOk(resp)
       THEN /\ todos' = EditUpdate(todos, calls[i].id, editText, editPriority)
            /\ editingId' = Null
            /\ editText' = << >>
            /\ tog' = NoTog
       ELSE UNCHANGED <<todos, editingId, editText, tog>>
    /\ last' = Step("saveEdit.resume", calls[i], resp)
    /\ UNCHANGED still
    /\ UNCHANGED <<loading, error, newTodoText, newTodoPriority, editPriority,
                   started, nextId, steps>>

\* ---------------------------------------------------------------- form inputs

SetNewTodoText(t) ==
    /\ User
    /\ t # newTodoText
    /\ steps' = steps + 1
    /\ newTodoText' = t
    /\ last' = Step("input", NoCall, NoResp)
    /\ UNCHANGED still
    /\ UNCHANGED <<todos, loading, error, newTodoPriority, editingId, editText,
                   editPriority, started, calls, nextId, tog>>

SetNewTodoPriority(p) ==
    /\ User
    /\ p # newTodoPriority
    /\ steps' = steps + 1
    /\ newTodoPriority' = p
    /\ last' = Step("input", NoCall, NoResp)
    /\ UNCHANGED still
    /\ UNCHANGED <<todos, loading, error, newTodoText, editingId, editText,
                   editPriority, started, calls, nextId, tog>>

\* The edit fields are those of the item under edit.
SetEditText(t) ==
    /\ User
    /\ editingId # Null
    /\ t # editText
    /\ steps' = steps + 1
    /\ editText' = t
    /\ last' = Step("input", NoCall, NoResp)
    /\ UNCHANGED still
    /\ UNCHANGED <<todos, loading, error, newTodoText, newTodoPriority,
                   editingId, editPriority, started, calls, nextId, tog>>

SetEditPriority(p) ==
    /\ User
    /\ editingId # Null
    /\ p # editPriority
    /\ steps' = steps + 1
    /\ editPriority' = p
    /\ last' = Step("input", NoCall, NoResp)
    /\ UNCHANGED still
    /\ UNCHANGED <<todos, loading, error, newTodoText, newTodoPriority,
                   editingId, editText, started, calls, nextId, tog>>

\* ---------------------------------------------------------------- specification

Next ==
    \/ NgOnInit
    \/ LoadTodos
    \/ AddTodo
    \/ \E k \in 1..Len(todos) : ToggleTodo(k)
    \/ \E k \in 1..Len(todos) : DeleteTodo(k)
    \/ \E k \in 1..Len(todos) : StartEdit(k)
    \/ CancelEdit
    \/ SaveEdit
    \/ \E t \in TextInputs : SetNewTodoText(t)
    \/ \E p \in Priorities : SetNewTodoPriority(p)
    \/ \E t \in EditInputs : SetEditText(t)
    \/ \E p \in Priorities : SetEditPriority(p)
    \/ \E i \in 1..Len(calls) : ServerCreate(i)
    \/ \E i \in 1..Len(calls) : \E resp \in LoadResponses :
          \E prios \in [1..Len(resp.items) -> Priorities] : LoadResume(i, resp, prios)
    \/ \E i \in 1..Len(calls) : \E resp \in AddResponses(calls[i]) : AddResume(i, resp)
    \/ \E i \in 1..Len(calls) : \E resp \in PlainResponses : ToggleResume(i, resp)
    \/ \E i \in 1..Len(calls) : \E resp \in PlainResponses : DeleteResume(i, resp)
    \/ \E i \in 1..Len(calls) : \E resp \in PlainResponses : SaveEditResume(i, resp)

Spec == Init /\ [][Next]_vars

\* The same component in front of the other collections.
InitZero == InitWith(ServerDataZero)
SpecZero == InitZero /\ [][Next]_vars

InitTwo == InitWith(ServerDataTwo)
SpecTwo == InitTwo /\ [][Next]_vars

\* ---------------------------------------------------------------- filteredAndSortedTodos

\* Variant: the two filters taken for each other.
FilterTodosSwapped(xs, filter) ==
    LET done(todo) == todo.completed
        pending(todo) == ~todo.completed
    IN  IF filter = "completed" THEN SelectSeq(xs, pending)
        ELSE IF filter = "pending" THEN SelectSeq(xs, done)
        ELSE xs

\* filtered.filter(todo => todo.completed) / (todo => !todo.completed), or
\* the list itself for 'all'.
FilterTodos(xs, filter) ==
    LET done(todo) == todo.completed
        pending(todo) == ~todo.completed
    IN  IF filter = "completed" THEN SelectSeq(xs, done)
        ELSE IF filter = "pending" THEN SelectSeq(xs, pending)
        ELSE xs

\* const priorityOrder = { high: 3, medium: 2, low: 1 }
PriorityOrder(p) == IF p = "high" THEN 3 ELSE IF p = "medium" THEN 2 ELSE 1

\* Variant: the comparator's operands exchanged.
CompareAscending(a, b) == PriorityOrder(a.priority) - PriorityOrder(b.priority)

\* (a, b) => priorityOrder[b.priority] - priorityOrder[a.priority]
Compare(a, b) == PriorityOrder(b.priority) - PriorityOrder(a.priority)

\* Array.prototype.sort with Compare: a stable sort, here by insertion; t goes
\* after the items of ys that do not compare greater than it.
RECURSIVE Insert(_, _)
Insert(t, ys) ==
    IF ys = << >> THEN << t >>
    ELSE IF Compare(Head(ys), t) <= 0
         THEN << Head(ys) >> \o Insert(t, Tail(ys))
         ELSE << t >> \o ys

RECURSIVE SortTodos(_)
SortTodos(xs) ==
    IF xs = << >> THEN << >>
    ELSE Insert(xs[Len(xs)], SortTodos(SubSeq(xs, 1, Len(xs) - 1)))

\* What filteredAndSortedTodos returns; the sort works on a copy, [...filtered].
FilteredAndSortedTodos ==
    LET filtered == FilterTodos(todos, currentFilter)
    IN  IF sortByPriority THEN SortTodos(filtered) ELSE filtered

\* The template calls filteredAndSortedTodos.
ShowTodos ==
    /\ view' = [fresh |-> TRUE, out |-> FilteredAndSortedTodos]
    /\ last' = Step("filteredAndSortedTodos", NoCall, NoResp)
    /\ UNCHANGED <<app, started, calls, nextId, steps, server, currentFilter,
                   sortByPriority, tog>>

SetCurrentFilter(f) ==
    /\ f # currentFilter
    /\ currentFilter' = f
    /\ view' = NoView
    /\ last' = Step("input", NoCall, NoResp)
    /\ UNCHANGED <<app, started, calls, nextId, steps, server, sortByPriority, tog>>

SetSortByPriority(b) ==
    /\ b # sortByPriority
    /\ sortByPriority' = b
    /\ view' = NoView
    /\ last' = Step("input", NoCall, NoResp)
    /\ UNCHANGED <<app, started, calls, nextId, steps, server, currentFilter, tog>>

\* The lists of at most MaxView items, the i-th of id i.
ViewLists ==
    UNION {{[i \in 1..n |-> [id |-> i, title |-> << "a" >>, completed |-> cs[i],
                             priority |-> ps[i], userId |-> UserId]]
            : cs \in [1..n -> BOOLEAN], ps \in [1..n -> Priorities]}
           : n \in 0..MaxView}

\* The component once a list has been loaded.
InitView ==
    /\ todos \in ViewLists
    /\ loading = FALSE
    /\ error = ""
    /\ newTodoText = << >>
    /\ newTodoPriority = "medium"
    /\ editingId = Null
    /\ editText = << >>
    /\ editPriority = "medium"
    /\ started = TRUE
    /\ calls = << >>
    /\ server = ServerData
    /\ nextId = Len(todos) + 1
    /\ steps = 0
    /\ currentFilter = "all"
    /\ sortByPriority = FALSE
    /\ view = NoView
    /\ last = Step("new", NoCall, NoResp)
    /\ tog = NoTog

NextView ==
    \/ ShowTodos
    \/ \E f \in Filters : SetCurrentFilter(f)
    \/ \E b \in BOOLEAN : SetSortByPriority(b)

SpecView == InitView /\ [][NextView]_vars

\* ---------------------------------------------------------------- properties

\* The step just taken is the resumption `op` (read in the state it leads to).
Resumed(op) == last.op = op
Succeeded == last.resp.status = "ok"

\* A GET that failed: fetch rejected, the status is not 2xx, or the payload
\* is not a JSON array.
LoadFailed(resp) == resp.status \in {"throw", "notok"} \/ resp.body # "array"

\* A POST that failed: fetch rejected, the status is not 2xx, or the payload
\* is not JSON.
AddFailed(resp) == resp.status \in {"throw", "notok"} \/ resp.body = "notjson"

\* t is the item `item` of a response, with a priority.
LoadedFrom(t, item) ==
    /\ DOMAIN t = DOMAIN item \cup {"priority"}
    /\ \A f \in DOMAIN item \ {"priority"} : t[f] = item[f]
    /\ t.priority \in Priorities

\* s is empty or holds white space only.
Blank(s) == \A i \in 1..Len(s) : s[i] \in WhiteSpace

\* The items of xs whose id is not id, in their order.
Others(xs, id) ==
    LET other(t) == t.id # id
    IN  SelectSeq(xs, other)

\* C1: when a Load resumes with a 2xx response whose body is an array of N
\* items, the list is then exactly those N items in response order (whatever
\* it held before), each with a priority among low, medium, high.
C1_LoadSuccess ==
    (Resumed("loadTodos.resume") /\ Succeeded /\ last.resp.body = "array")
    => /\ Len(todos) = Len(last.resp.items)
       /\ \A i \in 1..Len(todos) : LoadedFrom(todos[i], last.resp.items[i])

\* C1 witness: a Load has replaced a list that held a created item by the
\* two items of its response.
C1_Witness ==
    /\ Resumed("loadTodos.resume") /\ Succeeded /\ last.resp.body = "array"
    /\ Len(last.resp.items) = 2
    /\ Len(last.was) = 2
    /\ last.was # todos

\* C2 (as claimed): every failed Load sets the error to the load-failure
\* message and leaves the list as it was.
C2_LoadFailure ==
    (Resumed("loadTodos.resume") /\ LoadFailed(last.resp))
    => (error = LoadError /\ todos = last.was)

\* C3: addTodo with an empty or white-space-only title sends no request and
\* changes neither the list, nor the loading flag, the error, or the inputs.
C3_BlankCreate ==
    [][(last'.op = "addTodo" /\ Blank(newTodoText))
       => UNCHANGED <<todos, loading, error, newTodoText, newTodoPriority, calls>>]_vars

\* C3 witness: addTodo has been called with a white-space-only title while
\* a request was in flight and the list held an item.
C3_Witness ==
    /\ last.op = "addTodo"
    /\ Blank(newTodoText) /\ newTodoText # << >>
    /\ todos # << >>
    /\ calls # << >>

\* C4 (as claimed): a successful Create appends exactly one item, the
\* server-returned one with the priority the call posted, and resets the
\* title and priority inputs.
C4_CreateSuccess ==
    (Resumed("addTodo.resume") /\ Succeeded /\ last.resp.body = "object")
    => /\ Len(todos) = Len(last.was) + 1
       /\ SubSeq(todos, 1, Len(last.was)) = last.was
       /\ todos[Len(todos)].id = last.call.assigned
       /\ todos[Len(todos)].title = last.call.title
       /\ todos[Len(todos)].priority = last.call.priority
       /\ newTodoText = << >>
       /\ newTodoPriority = "medium"

\* C5 (as claimed): every failed Create sets the user-visible error and
\* appends nothing.
C5_CreateFailure ==
    (Resumed("addTodo.resume") /\ AddFailed(last.resp))
    => (error = AddError /\ todos = last.was)

\* C6 (as claimed): no two items of the list have the same id.
C6_UniqueIds ==
    \A i \in 1..Len(todos) : \A j \in 1..Len(todos) :
        i # j => todos[i].id # todos[j].id

\* C7: after two successful toggles of an item X of the list, with no other
\* change of the list in between, X's completed flag is what it was before
\* the first, whether the second was called after or before the first resumed.
C7_ToggleTwice ==
    Len(tog.sent) = 2
    => /\ Len(todos) = Len(tog.orig)
       /\ \A i \in 1..Len(todos) :
              tog.orig[i].id = tog.id
              => todos[i].id = tog.id /\ todos[i].completed = tog.orig[i].completed

\* C7 witness: two toggles of an item of the list, both in flight at once
\* (they sent the same flag), have both succeeded.
C7_Witness ==
    /\ Len(tog.sent) = 2
    /\ tog.sent[1] = tog.sent[2]
    /\ \E i \in 1..Len(tog.orig) : tog.orig[i].id = tog.id

\* C8: a failed Toggle, Delete or Save Edit (fetch rejected, or a non-2xx
\* status) leaves the list and the error string as they were.
C8_SilentFailure ==
    [][(/\ last'.op \in {"toggleTodo.resume", "deleteTodo.resume", "saveEdit.resume"}
        /\ last'.resp.status \in {"throw", "notok"})
       => (todos' = todos /\ error' = error)]_vars

\* C8 witness: a Delete of an item of the list was answered with a non-2xx
\* status while an error was shown.
C8_Witness ==
    /\ Resumed("deleteTodo.resume")
    /\ last.resp.status = "notok"
    /\ \E i \in 1..Len(todos) : todos[i].id = last.call.id
    /\ error # ""

\* C9: after a successful Delete of id I the list has no item of id I, and
\* holds the other items unmodified in the same order.
C9_DeleteSuccess ==
    (Resumed("deleteTodo.resume") /\ Succeeded)
    => /\ \A i \in 1..Len(todos) : todos[i].id # last.call.id
       /\ todos = Others(last.was, last.call.id)

\* C9 witness: a Delete has removed one item of a list of two.
C9_Witness ==
    /\ Resumed("deleteTodo.resume") /\ Succeeded
    /\ Len(last.was) = 2
    /\ Len(todos) = 1

\* C10 (as claimed): a successful Save Edit gives the item of the saved id
\* exactly the title and priority the request sent, changes no other item,
\* and clears edit mode.
C10_SaveEditSuccess ==
    (Resumed("saveEdit.resume") /\ Succeeded)
    => /\ Len(todos) = Len(last.was)
       /\ \A i \in 1..Len(todos) :
              IF last.was[i].id = last.call.id
              THEN todos[i] = [last.was[i] EXCEPT !.title = last.call.title,
                                                  !.priority = last.call.priority]
              ELSE todos[i] = last.was[i]
       /\ editingId = Null

\* C11 (as claimed): saveEdit with no item under edit sends no request and
\* changes no state; with an item of the list under edit it sends one PATCH
\* for that item's id (and changes nothing else).
C11_SaveEdit ==
    [][(last'.op = "saveEdit")
       => /\ UNCHANGED app
          /\ editingId = Null => calls' = calls
          /\ (\E k \in 1..Len(todos) : todos[k].id = editingId)
             => /\ Len(calls') = Len(calls) + 1
                /\ SubSeq(calls', 1, Len(calls)) = calls
                /\ calls'[Len(calls')].op = "edit"
                /\ calls'[Len(calls')].id = editingId]_vars

\* The filter keeps item t.
Keeps(filter, t) ==
    \/ filter = "all"
    \/ filter = "completed" /\ t.completed
    \/ filter = "pending" /\ ~t.completed

\* out holds exactly the items of xs the filter keeps, each once (the ids of
\* xs are its positions).
ExactlyKept(out, xs, filter) ==
    /\ \A k \in 1..Len(out) :
          /\ out[k].id \in 1..Len(xs)
          /\ out[k] = xs[out[k].id]
          /\ Keeps(filter, out[k])
    /\ \A i \in 1..Len(xs) : Keeps(filter, xs[i]) => \E k \in 1..Len(out) : out[k] = xs[i]
    /\ \A k \in 1..Len(out) : \A l \in 1..Len(out) : k # l => out[k].id # out[l].id

\* high = 3, medium = 2, low = 1.
Rank(t) == CASE t.priority = "high" -> 3 [] t.priority = "medium" -> 2 [] OTHER -> 1

\* C12: the view holds exactly the completed items under "completed", the
\* items not completed under "pending", every item under "all"; without
\* sort-by-priority it holds them in the order of the list.
C12_FilteredView ==
    view.fresh
    => /\ ExactlyKept(view.out, todos, currentFilter)
       /\ ~sortByPriority
          => \A k \in 1..Len(view.out) : \A l \in 1..Len(view.out) :
                 k < l => view.out[k].id < view.out[l].id

\* C12 witness: the unsorted "pending" view of a list of three items with a
\* completed one in the middle.
C12_Witness ==
    /\ view.fresh /\ ~sortByPriority /\ currentFilter = "pending"
    /\ Len(todos) = 3 /\ todos[2].completed
    /\ Len(view.out) = 2

\* C13: with sort-by-priority the view is a permutation of the filtered items
\* in non-increasing order of rank, and computing it leaves the list as it was.
C13_SortedView ==
    /\ (view.fresh /\ sortByPriority)
       => /\ ExactlyKept(view.out, todos, currentFilter)
          /\ \A k \in 1..Len(view.out) : \A l \in 1..Len(view.out) :
                 k < l => Rank(view.out[k]) >= Rank(view.out[l])
    /\ last.op = "filteredAndSortedTodos" => todos = last.was

\* C13 witness: the sorted view of three items puts the last one first.
C13_Witness ==
    /\ view.fresh /\ sortByPriority
    /\ last.op = "filteredAndSortedTodos"
    /\ Len(view.out) = 3
    /\ view.out[1].id = 3

\* A loadTodos or an addTodo is suspended at its fetch.
InFlight == \E i \in 1..Len(calls) : calls[i].op \in {"load", "add"}

\* The list xs holds an item of id x.
Holds(xs, x) == \E i \in 1..Len(xs) : xs[i].id = x

\* The remote resource assigned id x to a POST of this session.
CreatedId(x) == x > server[Len(server)].id

\* C14 (as claimed): while a Load or a Create is in flight the loading flag
\* is true, also when two of them overlap.
C14_LoadingWhileInFlight == InFlight => loading

\* C15 (as claimed): right after a successful Toggle of X is applied, X's
\* local completed flag is the value that request sent.
C15_ToggleAgrees ==
    (Resumed("toggleTodo.resume") /\ Succeeded)
    => \A i \in 1..Len(todos) :
           todos[i].id = last.call.id => todos[i].completed = ~last.call.completed

\* C16: whatever their response, Toggle and Save Edit leave the sequence of
\* ids as it was (an item deleted meanwhile is not put back); a Toggle
\* changes at most the completed field of the items of its id, a Save Edit
\* at most the title and priority of the items of its id.
C16_InPlace ==
    /\ last.op \in {"toggleTodo.resume", "saveEdit.resume"}
       => /\ Len(todos) = Len(last.was)
          /\ \A i \in 1..Len(todos) :
                 /\ todos[i].id = last.was[i].id
                 /\ last.was[i].id # last.call.id => todos[i] = last.was[i]
    /\ Resumed("toggleTodo.resume")
       => \A i \in 1..Len(todos) :
              todos[i] = [last.was[i] EXCEPT !.completed = todos[i].completed]
    /\ Resumed("saveEdit.resume")
       => \A i \in 1..Len(todos) :
              todos[i] = [last.was[i] EXCEPT !.title = todos[i].title,
                                             !.priority = todos[i].priority]

\* C16 witness: a Toggle has succeeded after a Delete removed its item.
C16_Witness ==
    /\ Resumed("toggleTodo.resume") /\ Succeeded
    /\ ~Holds(todos, last.call.id)
    /\ last.was = todos

\* C17 (as claimed): an item created in this session leaves the list only
\* when a Delete of its id succeeds.
C17_CreatedStays ==
    \A k \in 1..Len(last.was) :
        (CreatedId(last.was[k].id) /\ ~Holds(todos, last.was[k].id))
        => (Resumed("deleteTodo.resume") /\ Succeeded
            /\ last.call.id = last.was[k].id)

\* C17 (amended): an item leaves the list only when a Delete of its id
\* succeeds or when a Load whose response body is an array replaces the list.
C17_StaysUntilDeleteOrLoad ==
    \A k \in 1..Len(last.was) :
        ~Holds(todos, last.was[k].id)
        => \/ Resumed("deleteTodo.resume") /\ Succeeded
              /\ last.call.id = last.was[k].id
           \/ Resumed("loadTodos.resume") /\ last.resp.status # "throw"
              /\ last.resp.body = "array"

\* C17 witness: a Load has replaced a list that held a created item by a
\* list without it.
C17_Witness ==
    /\ Resumed("loadTodos.resume")
    /\ \E k \in 1..Len(last.was) :
           CreatedId(last.was[k].id) /\ ~Holds(todos, last.was[k].id)

\* C18 (as claimed): the edit marker is empty or the id of exactly one item
\* of the list.
C18_EditDesignates ==
    \/ editingId = Null
    \/ Cardinality({i \in 1..Len(todos) : todos[i].id = editingId}) = 1

\* C19 (as claimed): a successful Save Edit of item A leaves another item B
\* of the list, put under edit meanwhile, under edit with its staged title
\* and priority.
C19_OtherEditKept ==
    [][(/\ last'.op = "saveEdit.resume"
        /\ last'.resp.status = "ok"
        /\ editingId # last'.call.id
        /\ Holds(todos, editingId))
       => UNCHANGED <<editingId, editText, editPriority>>]_vars

\* C20: a Load or Create that resumes, whatever its response, leaves the
\* loading flag false, and the flag is false whenever no Load or Create is
\* in flight.
C20_LoadingNotStuck ==
    /\ last.op \in {"loadTodos.resume", "addTodo.resume"} => ~loading
    /\ ~InFlight => ~loading

\* C20 witness: a Load whose fetch was rejected has resumed, none is left in
\* flight.
C20_Witness ==
    /\ Resumed("loadTodos.resume")
    /\ last.resp.status = "throw"
    /\ ~InFlight
    /\ ~loading

====
